---- MODULE Spec2Model ----
(***************************************************************************)
(* Model of compound_attractions_handler.py: the compound-group matcher,   *)
(* the integrity enforcer, the day allocator and the neighborhood orderer. *)
(*                                                                         *)
(* Names are sequences of one-character strings, so that str.lower() and   *)
(* the substring test `x in y` are computed, not assumed.  A POI is a      *)
(* record with a name and an id; the id stands for every other field of    *)
(* the POI dictionary, which the handler passes through untouched.         *)
(***************************************************************************)
EXTENDS Integers, Sequences, FiniteSets, Bags, TLC

VARIABLES
    COMPOUND_CONFIG,  \* module-level configuration, loaded on import
    COMPOUND_CONFIG_PATH,  \* index in POSSIBLE_PATHS of the loaded file, or NoPath
    files,            \* the file found at each of POSSIBLE_PATHS
    path_i,           \* import: index of `path` in `for path in POSSIBLE_PATHS`
    accessed,         \* import: the file-system calls made, in order
    printed,          \* import: the messages printed, in order
    pc,               \* "loading", "opening", "loaded" (import); "idle",
                      \* "running" (inside split), "returned", "raised"
    op,               \* the operation that was called, "none" before any call
    city,             \* the city argument of the call
    poi_name,         \* find_compound_group: the name argument
    selected_in,      \* ensure_compound_integrity: `selected` as passed in
    selected_pois,    \* the caller's `selected` list object
    available_in,     \* ensure_compound_integrity: `available` as passed in
    available_pois,   \* the caller's `available` list object
    pois,             \* suggest_poi_order_by_neighborhood: pois
    all_pois,         \* split_pois_into_days: all_pois
    num_days,         \* split_pois_into_days: num_days
    quota_per_day,    \* split_pois_into_days: quota_per_day
    groups,           \* split: grouped_data['grouped'], in insertion order
    standalone,       \* split: grouped_data['standalone']
    days,             \* split: days
    day_counts,       \* split: day_counts
    gi,               \* split: number of iterations of the group loop done
    si,               \* split: number of iterations of the standalone loop done
    result,           \* the returned value, or the raised exception
    session2,         \* a second session: its own call of split_pois_into_days
    previous          \* <<r>> once the call is repeated on the same inputs,
                      \* r being what the first run returned or raised

loadVars == <<COMPOUND_CONFIG_PATH, files, path_i, accessed, printed>>

vars == <<COMPOUND_CONFIG, loadVars, pc, op, city, poi_name, selected_in, selected_pois,
          available_in, available_pois, pois, all_pois, num_days, quota_per_day,
          groups, standalone, days, day_counts, gi, si, result, previous, session2>>

-----------------------------------------------------------------------------
(* Bounds of the model *)

MaxGroups == 2
MaxMembers == 2
MaxHoods == 2
MaxHoodMembers == 2
MaxSelected == 2
MaxAvailable == 2
MaxPois == 3
MaxDays == 2
ScenarioPois == 7
ScenarioDays == 3
MaxQuota == 2

\* len(POSSIBLE_PATHS)
NumPaths == 4

-----------------------------------------------------------------------------
(* Strings *)

NameA == <<"a">>
NameAb == <<"A", "b">>
NameC == <<"c">>
EmptyName == <<>>

MemberNames == {NameA, NameAb, NameC}
PoiNames == MemberNames \cup {EmptyName}
HoodMemberNames == {NameA, NameC}
ScenarioNames == {NameA, NameC}

LowerChar(ch) ==
    CASE ch = "A" -> "a"
      [] ch = "B" -> "b"
      [] ch = "C" -> "c"
      [] OTHER -> ch

\* str.lower()
Lower(s) == [i \in 1..Len(s) |-> LowerChar(s[i])]

\* Mutant of Contains: the empty string is contained in nothing
Contains_NotEmpty(hay, needle) ==
    /\ needle # <<>>
    /\ \E i \in 0..(Len(hay) - Len(needle)) :
          SubSeq(hay, i + 1, i + Len(needle)) = needle

\* `needle in hay` for two strings
Contains(hay, needle) ==
    \E i \in 0..(Len(hay) - Len(needle)) :
        SubSeq(hay, i + 1, i + Len(needle)) = needle

\* `x in lst` for a list
InList(x, lst) == \E i \in 1..Len(lst) : lst[i] = x

-----------------------------------------------------------------------------
(* Configuration *)

Granada == "Granada"
Unknown == "Unknown"
Cities == {Granada, Unknown}

GroupNames == <<"G1", "G2", "G3", "G4">>
HoodNames == <<"N1", "N2", "N3", "N4">>

SeqsUpTo(S, n) == UNION {[1..k -> S] : k \in 0..n}

\* The entries of one city: a sequence (the JSON object keeps its order) of
\* named group configurations.
CityEntriesOf(n, maxMembers) ==
    {[i \in 1..n |->
        [name |-> GroupNames[i],
         has_included |-> TRUE,
         included_attractions |-> b[i].members,
         has_must |-> TRUE,
         must_visit_together |-> b[i].must]] :
      b \in [1..n -> [members : SeqsUpTo(MemberNames, maxMembers), must : BOOLEAN]]}

CityEntries(n) == CityEntriesOf(n, MaxMembers)

\* The same, where an entry may leave out the key 'must_visit_together'
CityEntriesOptionalMust(n, maxMembers) ==
    {[i \in 1..n |->
        [name |-> GroupNames[i],
         has_included |-> TRUE,
         included_attractions |-> b[i].members,
         has_must |-> b[i].has_must,
         must_visit_together |-> b[i].must]] :
      b \in [1..n -> {e \in [members : SeqsUpTo(MemberNames, maxMembers),
                              has_must : BOOLEAN, must : BOOLEAN] :
                        e.must => e.has_must}]}

\* config['neighborhoods'][city]: neighborhood name -> attraction names, in order
CityHoods(n) ==
    {[i \in 1..n |-> [name |-> HoodNames[i], attractions |-> b[i]]] :
      b \in [1..n -> SeqsUpTo(HoodMemberNames, MaxHoodMembers)]}

EmptyConfig == [cities |-> <<>>, neighborhoods |-> <<>>]

\* Configurations with compound groups (and no neighborhoods)
GroupConfigs(max) ==
    {EmptyConfig} \cup
    {[cities |-> [c \in {Granada} |-> e], neighborhoods |-> <<>>] :
        e \in UNION {CityEntries(n) : n \in 0..max}}

\* Configurations whose groups may leave out 'must_visit_together'
OptionalMustConfigs(max) ==
    {EmptyConfig} \cup
    {[cities |-> [c \in {Granada} |-> e], neighborhoods |-> <<>>] :
        e \in UNION {CityEntriesOptionalMust(n, MaxMembers) : n \in 0..max}}

\* Configurations with one compound group of up to maxMembers attractions
OneGroupConfigs(maxMembers) ==
    {[cities |-> [c \in {Granada} |-> e], neighborhoods |-> <<>>] :
        e \in CityEntriesOf(1, maxMembers)}

\* Configurations with neighborhoods (and no compound groups)
HoodConfigs(max) ==
    {EmptyConfig} \cup
    {[cities |-> <<>>, neighborhoods |-> [c \in {Granada} |-> h]] :
        h \in UNION {CityHoods(n) : n \in 0..max}}

\* `not COMPOUND_CONFIG`: the configuration is the empty dictionary
IsEmptyDict(cfg) == DOMAIN cfg.cities = {} /\ DOMAIN cfg.neighborhoods = {}

\* The files POSSIBLE_PATHS may name: none, one json.load fails on, or one
\* with some content
ConfigOf(member) ==
    [cities |-> [c \in {Granada} |->
                    << [name |-> GroupNames[1],
                        has_included |-> TRUE,
                        included_attractions |-> <<member>>,
                        has_must |-> TRUE,
                        must_visit_together |-> TRUE] >>],
     neighborhoods |-> <<>>]

LoadContents == {EmptyConfig, ConfigOf(NameA), ConfigOf(NameC)}

NoFile == [exists |-> FALSE, parses |-> FALSE, content |-> EmptyConfig]

BadFile == [exists |-> TRUE, parses |-> FALSE, content |-> EmptyConfig]

GoodFile(cfg) == [exists |-> TRUE, parses |-> TRUE, content |-> cfg]

Files == {NoFile, BadFile} \cup {GoodFile(cfg) : cfg \in LoadContents}

\* COMPOUND_CONFIG_PATH = None
NoPath == 0

Call(name, i) == [call |-> name, path |-> i]

Message(kind, i) == [kind |-> kind, path |-> i]

None == [name |-> "None", attractions |-> <<>>, must_group |-> FALSE]

\* Mutant of get_compound_groups: must_visit_together defaults to True
get_compound_groups_MustByDefault(c) ==
    IF c \notin DOMAIN COMPOUND_CONFIG.cities
    THEN <<>>
    ELSE LET entries == SelectSeq(COMPOUND_CONFIG.cities[c],
                                  LAMBDA e : e.has_included)
         IN  [i \in 1..Len(entries) |->
                [name |-> entries[i].name,
                 attractions |-> entries[i].included_attractions,
                 must_group |-> IF entries[i].has_must
                                THEN entries[i].must_visit_together
                                ELSE TRUE]]

\* Mutant of get_compound_groups: a city without an entry gets Granada's groups
get_compound_groups_NoCityCheck(c) ==
    IF Granada \notin DOMAIN COMPOUND_CONFIG.cities
    THEN <<>>
    ELSE LET entries == COMPOUND_CONFIG.cities[Granada]
         IN  [i \in 1..Len(entries) |->
                [name |-> entries[i].name,
                 attractions |-> entries[i].included_attractions,
                 must_group |-> entries[i].must_visit_together]]

get_compound_groups(c) ==
    IF c \notin DOMAIN COMPOUND_CONFIG.cities
    THEN <<>>
    ELSE LET entries == SelectSeq(COMPOUND_CONFIG.cities[c],
                                  LAMBDA e : e.has_included)
         IN  [i \in 1..Len(entries) |->
                [name |-> entries[i].name,
                 attractions |-> entries[i].included_attractions,
                 must_group |-> IF entries[i].has_must
                                THEN entries[i].must_visit_together
                                ELSE FALSE]]

\* Mutant of get_neighborhood_tags: a city without tags gets Granada's tags
get_neighborhood_tags_NoCityCheck(c) ==
    IF Granada \notin DOMAIN COMPOUND_CONFIG.neighborhoods
    THEN <<>>
    ELSE COMPOUND_CONFIG.neighborhoods[Granada]

get_neighborhood_tags(c) ==
    IF c \notin DOMAIN COMPOUND_CONFIG.neighborhoods
    THEN <<>>
    ELSE COMPOUND_CONFIG.neighborhoods[c]

-----------------------------------------------------------------------------
(* POIs *)

\* The list of POI dictionaries with the given names; ids base+1, base+2, ...
MkPois(names, base) == [i \in 1..Len(names) |-> [name |-> names[i], id |-> base + i]]

SeqToBag(s) == [x \in {s[i] : i \in 1..Len(s)} |-> Cardinality({i \in 1..Len(s) : s[i] = x})]

RECURSIVE Flatten(_)
Flatten(ss) == IF ss = <<>> THEN <<>> ELSE Head(ss) \o Flatten(Tail(ss))

-----------------------------------------------------------------------------
(* find_compound_group *)

\* Mutant of GroupMatches: the substring test without .lower()
GroupMatches_CaseSensitive(name, group) ==
    \/ InList(name, group.attractions)
    \/ \E i \in 1..Len(group.attractions) :
          \/ Contains(name, group.attractions[i])
          \/ Contains(group.attractions[i], name)

\* One iteration of the loop over the groups: the exact test, then the
\* substring test against every attraction of the same group.
GroupMatches(name, group) ==
    \/ InList(name, group.attractions)
    \/ \E i \in 1..Len(group.attractions) :
          \/ Contains(Lower(name), Lower(group.attractions[i]))
          \/ Contains(Lower(group.attractions[i]), Lower(name))

find_compound_group(name, c) ==
    LET gs == get_compound_groups(c)
        hits == {i \in 1..Len(gs) : GroupMatches(name, gs[i])}
    IN  IF hits = {} THEN None
        ELSE gs[CHOOSE i \in hits : \A j \in hits : i <= j]

-----------------------------------------------------------------------------
(* group_pois_by_compound *)

\* grouped[group_name].append(poi), creating the key at the end of the
\* dictionary when it is new
AppendToGroup(grouped, group_name, poi) ==
    IF \E i \in 1..Len(grouped) : grouped[i].name = group_name
    THEN [i \in 1..Len(grouped) |->
            IF grouped[i].name = group_name
            THEN [grouped[i] EXCEPT !.pois = Append(@, poi)]
            ELSE grouped[i]]
    ELSE Append(grouped, [name |-> group_name, pois |-> <<poi>>])

RECURSIVE GroupLoop(_, _, _, _)
GroupLoop(ps, c, grouped, alone) ==
    IF ps = <<>>
    THEN [grouped |-> grouped, standalone |-> alone]
    ELSE LET poi == Head(ps)
             group == find_compound_group(poi.name, c)
         IN  IF group # None /\ group.must_group
             THEN GroupLoop(Tail(ps), c, AppendToGroup(grouped, group.name, poi), alone)
             ELSE GroupLoop(Tail(ps), c, grouped, Append(alone, poi))

group_pois_by_compound(ps, c) == GroupLoop(ps, c, <<>>, <<>>)

-----------------------------------------------------------------------------
(* ensure_compound_integrity *)

HasName(ps, name) == \E i \in 1..Len(ps) : ps[i].name = name

\* Mutant of AddFromAvailable: insert at the front in place of append
AddFromAvailable_Prepend(sel, avail, name) ==
    LET found == {j \in 1..Len(avail) : avail[j].name = name}
    IN  IF found = {} THEN sel
        ELSE <<avail[CHOOSE j \in found : \A k \in found : j <= k]>> \o sel

\* The first POI of `avail` with this name, appended; nothing when there is none
AddFromAvailable(sel, avail, name) ==
    LET found == {j \in 1..Len(avail) : avail[j].name = name}
    IN  IF found = {} THEN sel
        ELSE Append(sel, avail[CHOOSE j \in found : \A k \in found : j <= k])

\* Mutant of CompleteGroup: the attractions are visited last to first
RECURSIVE CompleteGroup_Reversed(_, _, _)
CompleteGroup_Reversed(sel, attractions, avail) ==
    IF attractions = <<>>
    THEN sel
    ELSE LET last == attractions[Len(attractions)]
             rest == SubSeq(attractions, 1, Len(attractions) - 1)
         IN  IF \E i \in 1..Len(sel) : sel[i].name = last
             THEN CompleteGroup_Reversed(sel, rest, avail)
             ELSE CompleteGroup_Reversed(AddFromAvailable(sel, avail, last), rest, avail)

\* Mutant of CompleteGroup: no `continue` for a name already selected
RECURSIVE CompleteGroup_NoSkip(_, _, _)
CompleteGroup_NoSkip(sel, attractions, avail) ==
    IF attractions = <<>>
    THEN sel
    ELSE CompleteGroup_NoSkip(AddFromAvailable(sel, avail, Head(attractions)),
                              Tail(attractions), avail)

\* Mutant of CompleteGroup: the loop ends at the first attraction that is
\* neither selected nor available
RECURSIVE CompleteGroup_StopAtMissing(_, _, _)
CompleteGroup_StopAtMissing(sel, attractions, avail) ==
    IF attractions = <<>>
    THEN sel
    ELSE IF HasName(sel, Head(attractions))
         THEN CompleteGroup_StopAtMissing(sel, Tail(attractions), avail)
         ELSE IF HasName(avail, Head(attractions))
              THEN CompleteGroup_StopAtMissing(
                       AddFromAvailable(sel, avail, Head(attractions)),
                       Tail(attractions), avail)
              ELSE sel

\* The loop over group['attractions']
RECURSIVE CompleteGroup(_, _, _)
CompleteGroup(sel, attractions, avail) ==
    IF attractions = <<>>
    THEN sel
    ELSE IF HasName(sel, Head(attractions))
         THEN CompleteGroup(sel, Tail(attractions), avail)
         ELSE CompleteGroup(AddFromAvailable(sel, avail, Head(attractions)),
                            Tail(attractions), avail)

\* Mutant of GroupInSelection: the matcher's test (exact or substring)
GroupInSelection_ByMatcher(sel, group) ==
    \E i \in 1..Len(sel) : GroupMatches(sel[i].name, group)

\* `if group_pois_in_selection:`
GroupInSelection(sel, group) ==
    \E i \in 1..Len(sel) : InList(sel[i].name, group.attractions)

\* The loop over the groups; `sel` is the list as mutated so far
RECURSIVE EnsureLoop(_, _, _)
EnsureLoop(sel, gs, avail) ==
    IF gs = <<>>
    THEN sel
    ELSE LET group == Head(gs)
         IN  IF ~group.must_group
             THEN EnsureLoop(sel, Tail(gs), avail)
             ELSE IF GroupInSelection(sel, group)
                  THEN EnsureLoop(CompleteGroup(sel, group.attractions, avail),
                                  Tail(gs), avail)
                  ELSE EnsureLoop(sel, Tail(gs), avail)

ensure_compound_integrity(sel, avail, c) ==
    EnsureLoop(sel, get_compound_groups(c), avail)

\* The caller's list objects once the call has returned: `selected_pois.append`
\* mutates the argument, and the returned list is that same object; nothing
\* writes to `available_pois`.
SelectedAfterCall(sel, avail, c) == ensure_compound_integrity(sel, avail, c)

AvailableAfterCall(sel, avail, c) == avail

-----------------------------------------------------------------------------
(* suggest_poi_order_by_neighborhood *)

\* Mutant of FirstHood: the last listing neighborhood wins
FirstHood_Last(name, hoods) ==
    LET hits == {i \in 1..Len(hoods) : InList(name, hoods[i].attractions)}
    IN  IF hits = {} THEN 0 ELSE CHOOSE i \in hits : \A j \in hits : i >= j

\* The index of the first neighborhood listing the name, 0 when there is none
FirstHood(name, hoods) ==
    LET hits == {i \in 1..Len(hoods) : InList(name, hoods[i].attractions)}
    IN  IF hits = {} THEN 0 ELSE CHOOSE i \in hits : \A j \in hits : i <= j

\* Mutant of OrderLoop: no `break`, the POI goes to every listing neighborhood
RECURSIVE OrderLoop_NoBreak(_, _, _, _)
OrderLoop_NoBreak(ps, hoods, buckets, unmatched) ==
    IF ps = <<>>
    THEN Flatten(buckets) \o unmatched
    ELSE IF \E h \in 1..Len(hoods) : InList(Head(ps).name, hoods[h].attractions)
         THEN OrderLoop_NoBreak(Tail(ps), hoods,
                  [h \in 1..Len(hoods) |->
                      IF InList(Head(ps).name, hoods[h].attractions)
                      THEN Append(buckets[h], Head(ps))
                      ELSE buckets[h]],
                  unmatched)
         ELSE OrderLoop_NoBreak(Tail(ps), hoods, buckets, Append(unmatched, Head(ps)))

\* Mutant of OrderLoop: insert(0, poi) in place of append
RECURSIVE OrderLoop_InsertFirst(_, _, _, _)
OrderLoop_InsertFirst(ps, hoods, buckets, unmatched) ==
    IF ps = <<>>
    THEN Flatten(buckets) \o unmatched
    ELSE LET h == FirstHood(Head(ps).name, hoods)
         IN  IF h # 0
             THEN OrderLoop_InsertFirst(Tail(ps), hoods,
                      [buckets EXCEPT ![h] = <<Head(ps)>> \o @], unmatched)
             ELSE OrderLoop_InsertFirst(Tail(ps), hoods, buckets,
                                        <<Head(ps)>> \o unmatched)

RECURSIVE OrderLoop(_, _, _, _)
OrderLoop(ps, hoods, buckets, unmatched) ==
    IF ps = <<>>
    THEN Flatten(buckets) \o unmatched
    ELSE LET h == FirstHood(Head(ps).name, hoods)
         IN  IF h # 0
             THEN OrderLoop(Tail(ps), hoods,
                            [buckets EXCEPT ![h] = Append(@, Head(ps))], unmatched)
             ELSE OrderLoop(Tail(ps), hoods, buckets, Append(unmatched, Head(ps)))

suggest_poi_order_by_neighborhood(ps, c) ==
    LET hoods == get_neighborhood_tags(c)
    IN  OrderLoop(ps, hoods, [i \in 1..Len(hoods) |-> <<>>], <<>>)

-----------------------------------------------------------------------------
(* split_pois_into_days *)

\* Mutant of BestDay: max in place of min
BestDay_Fullest(counts) ==
    CHOOSE i \in 1..Len(counts) :
        /\ \A j \in 1..Len(counts) : counts[i] >= counts[j]
        /\ \A j \in 1..(i - 1) : counts[j] < counts[i]

\* Mutant of BestDay: among the minimal counts the last index wins
BestDay_LastTie(counts) ==
    CHOOSE i \in 1..Len(counts) :
        /\ \A j \in 1..Len(counts) : counts[i] <= counts[j]
        /\ \A j \in (i + 1)..Len(counts) : counts[j] > counts[i]

\* min(range(num_days), key=lambda i: day_counts[i]): the first index of a
\* minimal count (day 1 of the model is index 0 of the code)
BestDay(counts) ==
    CHOOSE i \in 1..Len(counts) :
        /\ \A j \in 1..Len(counts) : counts[i] <= counts[j]
        /\ \A j \in 1..(i - 1) : counts[j] > counts[i]

\* Mutant of ExtendDay: the POIs are put at the front of the day
ExtendDay_AtFront(ds, b, unit) == [ds EXCEPT ![b] = unit \o @]

\* Mutant of ExtendDay: assignment in place of extend
ExtendDay_Overwrite(ds, b, unit) == [ds EXCEPT ![b] = unit]

\* days[best_day_idx].extend(unit)
ExtendDay(ds, b, unit) == [ds EXCEPT ![b] = @ \o unit]

\* Mutant of AddCount: the count is not updated
AddCount_Skipped(counts, b, n) == counts

\* day_counts[best_day_idx] += n
AddCount(counts, b, n) == [counts EXCEPT ![b] = @ + n]

\* [[] for _ in range(num_days)]: empty when num_days < 1
EmptyDays(n) == [i \in 1..n |-> <<>>]

\* [0] * num_days
ZeroCounts(n) == [i \in 1..n |-> 0]

\* min() of an empty range raises ValueError
MinRaises(n) == n < 1

\* The two loops of split_pois_into_days over the units (groups whole, then
\* standalone POIs one by one)
RECURSIVE PlaceUnits(_, _, _)
PlaceUnits(units, ds, counts) ==
    IF units = <<>>
    THEN ds
    ELSE LET b == BestDay(counts)
         IN  PlaceUnits(Tail(units), ExtendDay(ds, b, Head(units)),
                        AddCount(counts, b, Len(Head(units))))

\* split_pois_into_days run alone, start to end
split_pois_into_days(ps, c, d) ==
    LET grouped_data == group_pois_by_compound(ps, c)
        units == [i \in 1..Len(grouped_data.grouped) |-> grouped_data.grouped[i].pois]
                 \o [i \in 1..Len(grouped_data.standalone) |->
                        <<grouped_data.standalone[i]>>]
    IN  IF MinRaises(d) /\ units # <<>>
        THEN "ValueError"
        ELSE PlaceUnits(units, EmptyDays(d), ZeroCounts(d))

-----------------------------------------------------------------------------
(* The state after import, and the calls *)

\* A session that has not called yet
IdleSession ==
    [pc |-> "idle", all_pois |-> <<>>, num_days |-> 0, groups |-> <<>>,
     standalone |-> <<>>, days |-> <<>>, day_counts |-> <<>>, gi |-> 0, si |-> 0,
     result |-> <<>>]

\* The state before the import loop runs (lines 19-20)
InitLoad ==
    /\ COMPOUND_CONFIG = EmptyConfig
    /\ COMPOUND_CONFIG_PATH = NoPath
    /\ files \in [1..NumPaths -> Files]
    /\ path_i = 1
    /\ accessed = <<>>
    /\ printed = <<>>

\* An import that found COMPOUND_CONFIG in the first of POSSIBLE_PATHS
Imported ==
    /\ COMPOUND_CONFIG_PATH = 1
    /\ files = [i \in 1..NumPaths |->
                    IF i = 1 THEN GoodFile(COMPOUND_CONFIG) ELSE NoFile]
    /\ path_i = 1
    /\ accessed = <<Call("exists", 1), Call("open", 1)>>
    /\ printed = IF IsEmptyDict(COMPOUND_CONFIG)
                 THEN <<Message("loaded", 1), Message("warning", 0)>>
                 ELSE <<Message("loaded", 1)>>

InitLocalsIn(cities) ==
    /\ Imported
    /\ pc = "idle"
    /\ op = "none"
    /\ city \in cities
    /\ poi_name = <<>>
    /\ selected_in = <<>>
    /\ selected_pois = <<>>
    /\ available_in = <<>>
    /\ available_pois = <<>>
    /\ pois = <<>>
    /\ all_pois = <<>>
    /\ num_days = 0
    /\ quota_per_day = 0
    /\ groups = <<>>
    /\ standalone = <<>>
    /\ days = <<>>
    /\ day_counts = <<>>
    /\ gi = 0
    /\ si = 0
    /\ result = <<>>
    /\ previous = <<>>
    /\ session2 = IdleSession

InitLocals == InitLocalsIn({Granada})

InitGroups == COMPOUND_CONFIG \in GroupConfigs(MaxGroups) /\ InitLocals

InitHoods == COMPOUND_CONFIG \in HoodConfigs(MaxHoods) /\ InitLocals

Init ==
    /\ COMPOUND_CONFIG \in GroupConfigs(MaxGroups) \cup HoodConfigs(MaxHoods)
    /\ InitLocals

splitVars == <<all_pois, num_days, quota_per_day, groups, standalone, days,
               day_counts, gi, si>>

ensureVars == <<selected_in, selected_pois, available_in, available_pois>>

\* `for path in POSSIBLE_PATHS: if path.exists():`
LoadTest ==
    /\ pc = "loading"
    /\ path_i <= NumPaths
    /\ accessed' = Append(accessed, Call("exists", path_i))
    /\ IF files[path_i].exists
       THEN pc' = "opening" /\ path_i' = path_i
       ELSE pc' = "loading" /\ path_i' = path_i + 1
    /\ UNCHANGED <<COMPOUND_CONFIG, COMPOUND_CONFIG_PATH, files, printed, op,
                   city, poi_name, pois, ensureVars, splitVars, result, previous,
                   session2>>

\* Mutant of LoadOpen: no `break` after a successful load
LoadOpen_NoBreak ==
    /\ pc = "opening"
    /\ accessed' = Append(accessed, Call("open", path_i))
    /\ IF files[path_i].parses
       THEN /\ COMPOUND_CONFIG' = files[path_i].content
            /\ COMPOUND_CONFIG_PATH' = path_i
            /\ printed' = Append(printed, Message("loaded", path_i))
       ELSE /\ printed' = Append(printed, Message("error", path_i))
            /\ UNCHANGED <<COMPOUND_CONFIG, COMPOUND_CONFIG_PATH>>
    /\ pc' = "loading"
    /\ path_i' = path_i + 1
    /\ UNCHANGED <<files, op, city, poi_name, pois, ensureVars, splitVars, result,
                   previous, session2>>

\* The try block: open and json.load, then `break`; or the except branch
LoadOpen ==
    /\ pc = "opening"
    /\ accessed' = Append(accessed, Call("open", path_i))
    /\ IF files[path_i].parses
       THEN /\ COMPOUND_CONFIG' = files[path_i].content
            /\ COMPOUND_CONFIG_PATH' = path_i
            /\ printed' = Append(printed, Message("loaded", path_i))
            /\ pc' = "loaded"
            /\ path_i' = path_i
       ELSE /\ printed' = Append(printed, Message("error", path_i))
            /\ pc' = "loading"
            /\ path_i' = path_i + 1
            /\ UNCHANGED <<COMPOUND_CONFIG, COMPOUND_CONFIG_PATH>>
    /\ UNCHANGED <<files, op, city, poi_name, pois, ensureVars, splitVars, result,
                   previous, session2>>

\* Mutant of LoadCheck: no warning
LoadCheck_Silent ==
    /\ \/ pc = "loaded"
       \/ pc = "loading" /\ path_i > NumPaths
    /\ pc' = "idle"
    /\ UNCHANGED <<COMPOUND_CONFIG, loadVars, previous, session2, op, city, poi_name, pois,
                   ensureVars, splitVars, result>>

\* After the loop: `if not COMPOUND_CONFIG:` print the warning
LoadCheck ==
    /\ \/ pc = "loaded"
       \/ pc = "loading" /\ path_i > NumPaths
    /\ printed' = IF IsEmptyDict(COMPOUND_CONFIG)
                  THEN Append(printed, Message("warning", 0))
                  ELSE printed
    /\ pc' = "idle"
    /\ UNCHANGED <<COMPOUND_CONFIG, COMPOUND_CONFIG_PATH, files, path_i, accessed,
                   op, city, poi_name, pois, ensureVars, splitVars, result, previous,
                   session2>>

LoadNext == LoadTest \/ LoadOpen \/ LoadCheck

GroupsCall ==
    /\ pc = "idle"
    /\ result' = get_compound_groups(city)
    /\ op' = "groups"
    /\ pc' = "returned"
    /\ UNCHANGED <<COMPOUND_CONFIG, loadVars, previous, session2, city, poi_name, pois, ensureVars, splitVars>>

GroupPoisCall ==
    /\ pc = "idle"
    /\ \E ns \in SeqsUpTo(PoiNames, MaxPois) :
          /\ pois' = MkPois(ns, 0)
          /\ result' = group_pois_by_compound(MkPois(ns, 0), city)
    /\ op' = "group"
    /\ pc' = "returned"
    /\ UNCHANGED <<COMPOUND_CONFIG, loadVars, previous, session2, city, poi_name,
                   ensureVars, splitVars>>

FindCall ==
    /\ pc = "idle"
    /\ \E n \in PoiNames :
          /\ poi_name' = n
          /\ result' = find_compound_group(n, city)
    /\ op' = "find"
    /\ pc' = "returned"
    /\ UNCHANGED <<COMPOUND_CONFIG, loadVars, previous, session2, city, pois, ensureVars, splitVars>>

EnsureCallOn(selectedNames, availableNames) ==
    /\ pc = "idle"
    /\ \E sn \in selectedNames, an \in availableNames :
          LET sel == MkPois(sn, 0)
              avail == MkPois(an, 10)
          IN  /\ selected_in' = sel
              /\ available_in' = avail
              /\ selected_pois' = SelectedAfterCall(sel, avail, city)
              /\ available_pois' = AvailableAfterCall(sel, avail, city)
              /\ result' = ensure_compound_integrity(sel, avail, city)
    /\ op' = "ensure"
    /\ pc' = "returned"
    /\ UNCHANGED <<COMPOUND_CONFIG, loadVars, previous, session2, city, poi_name, pois, splitVars>>

EnsureCall ==
    EnsureCallOn(SeqsUpTo(MemberNames, MaxSelected), SeqsUpTo(MemberNames, MaxAvailable))

OrderCall ==
    /\ pc = "idle"
    /\ \E ns \in SeqsUpTo(MemberNames, MaxPois) :
          /\ pois' = MkPois(ns, 0)
          /\ result' = suggest_poi_order_by_neighborhood(MkPois(ns, 0), city)
    /\ op' = "order"
    /\ pc' = "returned"
    /\ UNCHANGED <<COMPOUND_CONFIG, loadVars, previous, session2, city, poi_name, ensureVars, splitVars>>

\* split_pois_into_days up to the first loop: the grouping and the empty days
SplitEnter(ps, d, q) ==
    LET grouped_data == group_pois_by_compound(ps, city)
    IN  /\ all_pois' = ps
        /\ num_days' = d
        /\ quota_per_day' = q
        /\ groups' = grouped_data.grouped
        /\ standalone' = grouped_data.standalone
        /\ days' = EmptyDays(d)
        /\ day_counts' = ZeroCounts(d)
        /\ gi' = 0
        /\ si' = 0
        /\ pc' = "running"

SplitCallOn(nameLists, dayCounts, quotas) ==
    /\ pc = "idle"
    /\ \E ns \in nameLists, d \in dayCounts, q \in quotas :
          SplitEnter(MkPois(ns, 0), d, q)
    /\ op' = "split"
    /\ UNCHANGED <<COMPOUND_CONFIG, loadVars, previous, session2, city, poi_name, pois, ensureVars, result>>

SplitCall(names, quotas) ==
    SplitCallOn(SeqsUpTo(names, MaxPois), (-1)..MaxDays, quotas)

\* Mutant of PlaceGroup: any least-loaded day may take the group
PlaceGroup_AnyLeastLoaded ==
    /\ pc = "running"
    /\ gi < Len(groups)
    /\ \/ /\ MinRaises(num_days)
          /\ pc' = "raised"
          /\ result' = "ValueError"
          /\ UNCHANGED <<days, day_counts, gi>>
       \/ /\ ~MinRaises(num_days)
          /\ \E b \in {i \in 1..Len(day_counts) :
                        \A j \in 1..Len(day_counts) : day_counts[i] <= day_counts[j]} :
                LET unit == groups[gi + 1].pois
                IN  /\ days' = ExtendDay(days, b, unit)
                    /\ day_counts' = AddCount(day_counts, b, Len(unit))
          /\ gi' = gi + 1
          /\ UNCHANGED <<pc, result>>
    /\ UNCHANGED <<COMPOUND_CONFIG, loadVars, previous, session2, op, city, poi_name, pois,
                   ensureVars, all_pois, num_days, quota_per_day, groups, standalone,
                   si>>

\* One iteration of `for group_name, group_pois in groups.items()`
PlaceGroup ==
    /\ pc = "running"
    /\ gi < Len(groups)
    /\ \/ /\ MinRaises(num_days)
          /\ pc' = "raised"
          /\ result' = "ValueError"
          /\ UNCHANGED <<days, day_counts, gi>>
       \/ /\ ~MinRaises(num_days)
          /\ LET b == BestDay(day_counts)
                 unit == groups[gi + 1].pois
             IN  /\ days' = ExtendDay(days, b, unit)
                 /\ day_counts' = AddCount(day_counts, b, Len(unit))
          /\ gi' = gi + 1
          /\ UNCHANGED <<pc, result>>
    /\ UNCHANGED <<COMPOUND_CONFIG, loadVars, previous, session2, op, city, poi_name, pois, ensureVars,
                   all_pois, num_days, quota_per_day, groups, standalone, si>>

\* Mutant of PlaceStandalone: the first day under quota is preferred
PlaceStandalone_UnderQuota ==
    /\ pc = "running"
    /\ gi = Len(groups)
    /\ si < Len(standalone)
    /\ \/ /\ MinRaises(num_days)
          /\ pc' = "raised"
          /\ result' = "ValueError"
          /\ UNCHANGED <<days, day_counts, si>>
       \/ /\ ~MinRaises(num_days)
          /\ LET under == {i \in 1..Len(day_counts) : day_counts[i] < quota_per_day}
                 b == IF under = {}
                      THEN BestDay(day_counts)
                      ELSE CHOOSE i \in under : \A j \in under : i <= j
             IN  /\ days' = ExtendDay(days, b, <<standalone[si + 1]>>)
                 /\ day_counts' = AddCount(day_counts, b, 1)
          /\ si' = si + 1
          /\ UNCHANGED <<pc, result>>
    /\ UNCHANGED <<COMPOUND_CONFIG, loadVars, previous, session2, op, city, poi_name, pois,
                   ensureVars, all_pois, num_days, quota_per_day, groups, standalone,
                   gi>>

\* One iteration of `for poi in standalone`
PlaceStandalone ==
    /\ pc = "running"
    /\ gi = Len(groups)
    /\ si < Len(standalone)
    /\ \/ /\ MinRaises(num_days)
          /\ pc' = "raised"
          /\ result' = "ValueError"
          /\ UNCHANGED <<days, day_counts, si>>
       \/ /\ ~MinRaises(num_days)
          /\ LET b == BestDay(day_counts)
             IN  /\ days' = ExtendDay(days, b, <<standalone[si + 1]>>)
                 /\ day_counts' = AddCount(day_counts, b, 1)
          /\ si' = si + 1
          /\ UNCHANGED <<pc, result>>
    /\ UNCHANGED <<COMPOUND_CONFIG, loadVars, previous, session2, op, city, poi_name, pois, ensureVars,
                   all_pois, num_days, quota_per_day, groups, standalone, gi>>

\* Mutant of SplitReturn: only the days that got a POI are returned
SplitReturn_NonEmptyDays ==
    /\ pc = "running"
    /\ gi = Len(groups)
    /\ si = Len(standalone)
    /\ pc' = "returned"
    /\ result' = SelectSeq(days, LAMBDA day : day # <<>>)
    /\ UNCHANGED <<COMPOUND_CONFIG, loadVars, previous, session2, op, city, poi_name,
                   pois, ensureVars, splitVars>>

\* `return days`
SplitReturn ==
    /\ pc = "running"
    /\ gi = Len(groups)
    /\ si = Len(standalone)
    /\ pc' = "returned"
    /\ result' = days
    /\ UNCHANGED <<COMPOUND_CONFIG, loadVars, previous, session2, op, city, poi_name, pois, ensureVars, splitVars>>

SplitNext == SplitCall(MemberNames, {2}) \/ PlaceGroup \/ PlaceStandalone \/ SplitReturn

\* The second session calls split_pois_into_days on its own POIs (other ids)
S2Call ==
    /\ session2.pc = "idle"
    /\ \E ns \in SeqsUpTo(ScenarioNames, MaxSelected), d \in 0..MaxDays :
          LET ps == MkPois(ns, 20)
              grouped_data == group_pois_by_compound(ps, city)
          IN  session2' = [pc |-> "running", all_pois |-> ps, num_days |-> d,
                           groups |-> grouped_data.grouped,
                           standalone |-> grouped_data.standalone,
                           days |-> EmptyDays(d), day_counts |-> ZeroCounts(d),
                           gi |-> 0, si |-> 0, result |-> <<>>]
    /\ UNCHANGED <<COMPOUND_CONFIG, loadVars, previous, pc, op, city, poi_name, pois,
                   ensureVars, splitVars, result>>

S2PlaceGroup ==
    /\ session2.pc = "running"
    /\ session2.gi < Len(session2.groups)
    /\ IF MinRaises(session2.num_days)
       THEN session2' = [session2 EXCEPT !.pc = "raised", !.result = "ValueError"]
       ELSE LET b == BestDay(session2.day_counts)
                unit == session2.groups[session2.gi + 1].pois
            IN  session2' = [session2 EXCEPT
                                !.days = ExtendDay(@, b, unit),
                                !.day_counts = AddCount(@, b, Len(unit)),
                                !.gi = @ + 1]
    /\ UNCHANGED <<COMPOUND_CONFIG, loadVars, previous, pc, op, city, poi_name, pois,
                   ensureVars, splitVars, result>>

\* Mutant of S2PlaceStandalone: day_counts is one list shared by the sessions
S2PlaceStandalone_SharedCounts ==
    /\ session2.pc = "running"
    /\ session2.gi = Len(session2.groups)
    /\ session2.si < Len(session2.standalone)
    /\ IF MinRaises(session2.num_days)
       THEN /\ session2' = [session2 EXCEPT !.pc = "raised", !.result = "ValueError"]
            /\ UNCHANGED day_counts
       ELSE LET b == BestDay(session2.day_counts)
            IN  /\ session2' = [session2 EXCEPT
                                   !.days = ExtendDay(@, b, <<session2.standalone[session2.si + 1]>>),
                                   !.day_counts = AddCount(@, b, 1),
                                   !.si = @ + 1]
                /\ day_counts' = IF b <= Len(day_counts)
                                 THEN AddCount(day_counts, b, 1)
                                 ELSE day_counts
    /\ UNCHANGED <<COMPOUND_CONFIG, loadVars, previous, pc, op, city, poi_name, pois,
                   ensureVars, all_pois, num_days, quota_per_day, groups, standalone,
                   days, gi, si, result>>

S2PlaceStandalone ==
    /\ session2.pc = "running"
    /\ session2.gi = Len(session2.groups)
    /\ session2.si < Len(session2.standalone)
    /\ IF MinRaises(session2.num_days)
       THEN session2' = [session2 EXCEPT !.pc = "raised", !.result = "ValueError"]
       ELSE LET b == BestDay(session2.day_counts)
            IN  session2' = [session2 EXCEPT
                                !.days = ExtendDay(@, b, <<session2.standalone[session2.si + 1]>>),
                                !.day_counts = AddCount(@, b, 1),
                                !.si = @ + 1]
    /\ UNCHANGED <<COMPOUND_CONFIG, loadVars, previous, pc, op, city, poi_name, pois,
                   ensureVars, splitVars, result>>

S2Return ==
    /\ session2.pc = "running"
    /\ session2.gi = Len(session2.groups)
    /\ session2.si = Len(session2.standalone)
    /\ session2' = [session2 EXCEPT !.pc = "returned", !.result = session2.days]
    /\ UNCHANGED <<COMPOUND_CONFIG, loadVars, previous, pc, op, city, poi_name, pois,
                   ensureVars, splitVars, result>>

S2Next == S2Call \/ S2PlaceGroup \/ S2PlaceStandalone \/ S2Return

\* The caller repeats its call with the arguments of the first call
Finished == pc \in {"returned", "raised"} /\ previous = <<>>

FindAgain ==
    /\ Finished
    /\ op = "find"
    /\ previous' = <<result>>
    /\ result' = find_compound_group(poi_name, city)
    /\ UNCHANGED <<COMPOUND_CONFIG, loadVars, session2, pc, op, city, poi_name, pois,
                   ensureVars, splitVars>>

EnsureAgain ==
    /\ Finished
    /\ op = "ensure"
    /\ previous' = <<result>>
    /\ selected_pois' = SelectedAfterCall(selected_in, available_in, city)
    /\ available_pois' = AvailableAfterCall(selected_in, available_in, city)
    /\ result' = ensure_compound_integrity(selected_in, available_in, city)
    /\ UNCHANGED <<COMPOUND_CONFIG, loadVars, session2, pc, op, city, poi_name, pois,
                   selected_in, available_in, splitVars>>

OrderAgain ==
    /\ Finished
    /\ op = "order"
    /\ previous' = <<result>>
    /\ result' = suggest_poi_order_by_neighborhood(pois, city)
    /\ UNCHANGED <<COMPOUND_CONFIG, loadVars, session2, pc, op, city, poi_name, pois,
                   ensureVars, splitVars>>

SplitAgain ==
    /\ Finished
    /\ op = "split"
    /\ previous' = <<result>>
    /\ SplitEnter(all_pois, num_days, quota_per_day)
    /\ UNCHANGED <<COMPOUND_CONFIG, loadVars, session2, op, city, poi_name, pois,
                   ensureVars, result>>

\* The caller repeats split_pois_into_days with another quota_per_day
SplitAgainWithQuota(quotas) ==
    /\ Finished
    /\ op = "split"
    /\ previous' = <<result>>
    /\ \E q \in quotas \ {quota_per_day} :
          SplitEnter(all_pois, num_days, q)
    /\ UNCHANGED <<COMPOUND_CONFIG, loadVars, session2, op, city, poi_name, pois,
                   ensureVars, result>>

Again == FindAgain \/ EnsureAgain \/ OrderAgain \/ SplitAgain

Next == FindCall \/ EnsureCall \/ OrderCall \/ SplitNext

Spec == Init /\ [][Next]_vars

SpecFind == InitGroups /\ [][FindCall]_vars

SpecEnsure == InitGroups /\ [][EnsureCall]_vars

\* ensure_compound_integrity, also on one group with one more attraction and
\* one more available POI, so that one group can add two POIs
InitEnsureOrder ==
    /\ COMPOUND_CONFIG \in GroupConfigs(MaxGroups) \cup OneGroupConfigs(MaxMembers + 1)
    /\ InitLocals

EnsureOrderCall ==
    EnsureCallOn(SeqsUpTo(MemberNames, MaxSelected),
                 SeqsUpTo(MemberNames, MaxAvailable + 1))

SpecEnsureOrder == InitEnsureOrder /\ [][EnsureOrderCall]_vars

SpecOrder == InitHoods /\ [][OrderCall]_vars

SpecSplit == InitGroups /\ [][SplitNext]_vars

\* split_pois_into_days on longer lists over at most one group: the lists of
\* Scenario B (3 days, a group of 3 POIs, 4 standalone POIs) are among them
InitScenario ==
    /\ COMPOUND_CONFIG \in {EmptyConfig} \cup OneGroupConfigs(MaxMembers)
    /\ InitLocals

ScenarioCall ==
    SplitCallOn([1..ScenarioPois -> ScenarioNames], 0..ScenarioDays, {2})

SpecScenario ==
    InitScenario /\ [][ScenarioCall \/ PlaceGroup \/ PlaceStandalone \/ SplitReturn]_vars

\* Every operation, run twice on the same configuration and arguments
SpecRepeat == Init /\ [][Next \/ Again]_vars

\* split_pois_into_days, run twice on arguments that differ in quota_per_day
Quotas == 1..MaxQuota

QuotaNext ==
    \/ SplitCallOn(SeqsUpTo(ScenarioNames, MaxPois), 0..MaxDays, Quotas)
    \/ PlaceGroup
    \/ PlaceStandalone
    \/ SplitReturn
    \/ SplitAgainWithQuota(Quotas)

SpecQuota == InitGroups /\ [][QuotaNext]_vars

\* Two sessions over one loaded configuration: the first makes any one call,
\* the second a split, their steps interleaved
InitSessions ==
    /\ COMPOUND_CONFIG \in {EmptyConfig} \cup OneGroupConfigs(MaxMembers)
    /\ InitLocals

SessionsNext ==
    \/ GroupsCall
    \/ FindCall
    \/ EnsureCallOn(SeqsUpTo(ScenarioNames, MaxSelected), SeqsUpTo(ScenarioNames, MaxAvailable))
    \/ OrderCall
    \/ SplitCallOn(SeqsUpTo(ScenarioNames, MaxPois), 0..MaxDays, {2})
    \/ PlaceGroup
    \/ PlaceStandalone
    \/ SplitReturn
    \/ S2Next

SpecSessions == InitSessions /\ [][SessionsNext]_vars

\* group_pois_by_compound over groups that may leave out 'must_visit_together',
\* and POIs that may have an empty name
InitGrouping == COMPOUND_CONFIG \in OptionalMustConfigs(MaxGroups) /\ InitLocals

SpecGrouping == InitGrouping /\ [][GroupPoisCall]_vars

\* split_pois_into_days for a configured and for an unconfigured city
InitFallback ==
    /\ COMPOUND_CONFIG \in {EmptyConfig} \cup OneGroupConfigs(MaxMembers)
    /\ InitLocalsIn(Cities)

SpecFallback ==
    InitFallback /\ [][ScenarioCall \/ PlaceGroup \/ PlaceStandalone \/ SplitReturn]_vars

\* The one-call operations for a configured and for an unconfigured city
InitUnconfigured ==
    /\ COMPOUND_CONFIG \in GroupConfigs(MaxGroups) \cup HoodConfigs(MaxHoods)
    /\ InitLocalsIn(Cities)

SpecUnconfigured ==
    InitUnconfigured /\ [][GroupsCall \/ FindCall \/ EnsureCall \/ OrderCall]_vars

\* The import of the module: the statements run one after the other to the end
InitImport ==
    /\ InitLoad
    /\ pc = "loading"
    /\ op = "none"
    /\ city = Granada
    /\ poi_name = <<>>
    /\ selected_in = <<>>
    /\ selected_pois = <<>>
    /\ available_in = <<>>
    /\ available_pois = <<>>
    /\ pois = <<>>
    /\ all_pois = <<>>
    /\ num_days = 0
    /\ quota_per_day = 0
    /\ groups = <<>>
    /\ standalone = <<>>
    /\ days = <<>>
    /\ day_counts = <<>>
    /\ gi = 0
    /\ si = 0
    /\ result = <<>>
    /\ previous = <<>>
    /\ session2 = IdleSession

SpecLoad == InitImport /\ [][LoadNext]_vars /\ WF_vars(LoadNext)

-----------------------------------------------------------------------------
(* Properties *)

SplitReturned == op = "split" /\ pc = "returned"

EnsureReturned == op = "ensure" /\ pc = "returned"

OrderReturned == op = "order" /\ pc = "returned"

FindReturned == op = "find" /\ pc = "returned"

\* The day indices of `ds` holding a POI whose name is one of `members`
DaysHolding(ds, members) ==
    {d \in 1..Len(ds) : \E i \in 1..Len(ds[d]) : InList(ds[d][i].name, members)}

\* C1: group atomicity of split_pois_into_days.  In the returned day lists,
\* for each must-group compound group of the city, all POIs whose name is one
\* of the group's declared members lie in one single day list.
C1_GroupAtomicity ==
    SplitReturned =>
        \A k \in 1..Len(get_compound_groups(city)) :
            LET group == get_compound_groups(city)[k]
            IN  group.must_group =>
                    Cardinality(DaysHolding(result, group.attractions)) <= 1

\* The POIs of the units and of the standalone list that are not placed yet
Unplaced ==
    Flatten([k \in 1..(Len(groups) - gi) |-> groups[gi + k].pois])
        \o SubSeq(standalone, si + 1, Len(standalone))

\* C2: conservation of split_pois_into_days.  For num_days >= 1, after the
\* grouping, after every placement of a unit and of a standalone POI, the POIs
\* in the day lists together with the POIs still to place are, as a multiset,
\* the POIs of all_pois; after the group phase no unit is left, and the
\* returned day lists hold exactly the multiset of all_pois.
C2_Conservation ==
    (op = "split" /\ num_days >= 1) =>
        /\ SeqToBag(Flatten(days)) (+) SeqToBag(Unplaced) = SeqToBag(all_pois)
        /\ si > 0 => gi = Len(groups)
        /\ pc = "returned" =>
              /\ SeqToBag(Flatten(result)) = SeqToBag(all_pois)
              /\ Len(Flatten(result)) = Len(all_pois)

C2_Witness ==
    /\ SplitReturned
    /\ num_days = 2
    /\ Len(groups) >= 1
    /\ Len(standalone) >= 1
    /\ \E i, j \in 1..Len(all_pois) : i # j /\ all_pois[i].name = all_pois[j].name
    /\ \A d \in 1..2 : result[d] # <<>>

\* C3: closure of ensure_compound_integrity.  In the returned list, every
\* must-group compound group with at least one member name present has every
\* member present for which `available` holds a POI of that exact name.
C3_Closure ==
    EnsureReturned =>
        \A k \in 1..Len(get_compound_groups(city)) :
            LET group == get_compound_groups(city)[k]
            IN  (group.must_group /\ GroupInSelection(result, group)) =>
                    \A m \in 1..Len(group.attractions) :
                        HasName(available_in, group.attractions[m]) =>
                            HasName(result, group.attractions[m])

\* C4: idempotence of ensure_compound_integrity.  Applying the operation to
\* its own result, with the same `available` and city, returns that result.
C4_Idempotent ==
    EnsureReturned =>
        ensure_compound_integrity(result, available_in, city) = result

\* C5: invalid day count.  For num_days < 1 split_pois_into_days never
\* returns a list of days normally.
C5_InvalidDayCount ==
    (op = "split" /\ num_days < 1) => pc # "returned"

\* The indices of the groups that list the name exactly
ExactGroups(name, gs) == {k \in 1..Len(gs) : InList(name, gs[k].attractions)}

\* C6: exact match takes priority in find_compound_group.  When some group
\* lists poi_name exactly, the returned group is the first such group in
\* declared order.
C6_ExactPriority ==
    FindReturned =>
        LET gs == get_compound_groups(city)
            exact == ExactGroups(poi_name, gs)
        IN  exact # {} =>
                result = gs[CHOOSE k \in exact : \A j \in exact : k <= j]

\* C7: conservation of suggest_poi_order_by_neighborhood.  The returned list
\* is a permutation of the input: same length, same multiset.
C7_OrderConservation ==
    OrderReturned =>
        /\ Len(result) = Len(pois)
        /\ SeqToBag(result) = SeqToBag(pois)

\* A name listed in two neighborhoods, or twice in one
ListedTwice(name, hoods) ==
    \/ \E i, j \in 1..Len(hoods) :
          i # j /\ InList(name, hoods[i].attractions) /\ InList(name, hoods[j].attractions)
    \/ \E i \in 1..Len(hoods) :
          hoods[i].attractions = <<name, name>>

C7_Witness ==
    /\ OrderReturned
    /\ Len(pois) = MaxPois
    /\ \E i, j \in 1..Len(pois) :
          /\ i # j
          /\ pois[i].name = pois[j].name
          /\ ListedTwice(pois[i].name, get_neighborhood_tags(city))

\* The POIs of `ps`, in order, whose first listing neighborhood is h; h = 0
\* selects the POIs that no neighborhood lists
Bucket(ps, hoods, h) ==
    SelectSeq(ps, LAMBDA p :
        /\ h # 0 => InList(p.name, hoods[h].attractions)
        /\ \A j \in 1..Len(hoods) :
              (h = 0 \/ j < h) => ~InList(p.name, hoods[j].attractions))

\* C8: ordering of suggest_poi_order_by_neighborhood.  The output is the
\* concatenation, in declared neighborhood order, of one bucket per
\* neighborhood and then the unmatched POIs; a POI is in the bucket of the
\* first neighborhood listing its exact name; buckets and the unmatched tail
\* keep the input's relative order.
C8_OrderShape ==
    OrderReturned =>
        LET hoods == get_neighborhood_tags(city)
        IN  result = Flatten([h \in 1..Len(hoods) |-> Bucket(pois, hoods, h)])
                        \o Bucket(pois, hoods, 0)

C8_Witness ==
    /\ OrderReturned
    /\ LET hoods == get_neighborhood_tags(city)
       IN  /\ Len(hoods) = 2
           /\ Len(Bucket(pois, hoods, 2)) >= 1
           /\ Len(Bucket(pois, hoods, 1)) >= 1
           /\ Len(Bucket(pois, hoods, 0)) >= 1
           /\ \E i \in 1..Len(pois) :
                 /\ InList(pois[i].name, hoods[1].attractions)
                 /\ InList(pois[i].name, hoods[2].attractions)
    /\ result # pois

\* C9: ensure_compound_integrity never removes or reorders.  The list passed
\* in is a prefix of the returned list.
C9_Prefix ==
    EnsureReturned =>
        /\ Len(result) >= Len(selected_in)
        /\ SubSeq(result, 1, Len(selected_in)) = selected_in

C9_Witness ==
    /\ EnsureReturned
    /\ Len(selected_in) = 2
    /\ Len(result) > Len(selected_in)

\* C10: ensure_compound_integrity has no side effect other than its return
\* value.  After the call the caller's `selected` and `available` lists hold
\* exactly the entries they held before the call.
C10_NoSideEffect ==
    EnsureReturned =>
        /\ selected_pois = selected_in
        /\ available_pois = available_in

\* The entries the call appended to `selected`
Added == SubSeq(result, Len(selected_in) + 1, Len(result))

\* The (group, member) positions of the must-group groups, in declared order
MustSlots(gs) ==
    {sl \in (1..Len(gs)) \X (1..(MaxMembers + 1)) :
        gs[sl[1]].must_group /\ sl[2] <= Len(gs[sl[1]].attractions)}

SlotBefore(s, t) == s[1] < t[1] \/ (s[1] = t[1] /\ s[2] < t[2])

\* The names of a list, each kept at its first occurrence only
RECURSIVE Dedupe(_)
Dedupe(names) ==
    IF names = <<>> THEN <<>>
    ELSE LET init == Dedupe(SubSeq(names, 1, Len(names) - 1))
             last == names[Len(names)]
         IN  IF InList(last, init) THEN init ELSE Append(init, last)

\* C11: order of completion in ensure_compound_integrity.  The added POIs
\* follow the original entries; they can be assigned to member positions of
\* must-group groups that increase strictly in (declared group order, declared
\* member order).  With one must-group group, its first member selected and
\* every member available, the result lists the members in declared order.
C11_CompletionOrder ==
    EnsureReturned =>
        LET gs == get_compound_groups(city)
        IN  /\ SubSeq(result, 1, Len(selected_in)) = selected_in
            /\ \E f \in [1..Len(Added) -> MustSlots(gs)] :
                  /\ \A p \in 1..Len(Added) :
                        Added[p].name = gs[f[p][1]].attractions[f[p][2]]
                  /\ \A p, q \in 1..Len(Added) : p < q => SlotBefore(f[p], f[q])
            /\ ( /\ Len(gs) = 1
                 /\ gs[1].must_group
                 /\ gs[1].attractions # <<>>
                 /\ Len(selected_in) = 1
                 /\ selected_in[1].name = gs[1].attractions[1]
                 /\ \A m \in 1..Len(gs[1].attractions) :
                       HasName(available_in, gs[1].attractions[m]) )
               => [i \in 1..Len(result) |-> result[i].name] = Dedupe(gs[1].attractions)

\* Scenario A: one group of three distinct members, the first selected, all
\* three available, and two POIs added
C11_Witness ==
    /\ EnsureReturned
    /\ LET gs == get_compound_groups(city)
       IN  /\ Len(gs) = 1
           /\ gs[1].must_group
           /\ gs[1].attractions = <<NameA, NameAb, NameC>>
    /\ [i \in 1..Len(selected_in) |-> selected_in[i].name] = <<NameA>>
    /\ Len(available_in) = 3
    /\ [i \in 1..Len(result) |-> result[i].name] = <<NameA, NameAb, NameC>>

\* The day holding the fewest POIs, the lowest index among equals
LeastLoaded(ds) ==
    CHOOSE d \in 1..Len(ds) :
        /\ \A e \in 1..Len(ds) : Len(ds[d]) <= Len(ds[e])
        /\ \A e \in 1..(d - 1) : Len(ds[e]) > Len(ds[d])

\* The position in all_pois of a POI of all_pois (ids are positions)
InputIndex(poi) == CHOOSE k \in 1..Len(all_pois) : all_pois[k] = poi

\* The units are listed in the order in which their first POI occurs in
\* all_pois, and each unit keeps the input order
UnitsInFirstEncounterOrder ==
    op = "split" =>
        /\ \A i, j \in 1..Len(groups) :
              i < j => InputIndex(groups[i].pois[1]) < InputIndex(groups[j].pois[1])
        /\ \A i \in 1..Len(groups) : \A p, q \in 1..Len(groups[i].pois) :
              p < q => InputIndex(groups[i].pois[p]) < InputIndex(groups[i].pois[q])

\* One step of the group loop: the next unit, in the order of `groups`, is
\* appended whole to the least-loaded day, whose count grows by its size; no
\* standalone POI has been placed; the first unit goes to the first day.
GroupPlacementStep ==
    (op = "split" /\ gi' # gi) =>
        LET b == LeastLoaded(days)
            unit == groups[gi + 1].pois
        IN  /\ gi' = gi + 1
            /\ si = 0 /\ si' = 0
            /\ Len(Flatten(days)) = Len(Flatten([k \in 1..gi |-> groups[k].pois]))
            /\ days' = [days EXCEPT ![b] = days[b] \o unit]
            /\ day_counts' = [day_counts EXCEPT ![b] = day_counts[b] + Len(unit)]
            /\ gi = 0 => b = 1

\* A standalone POI is placed only when every unit has been placed
StandaloneAfterGroups ==
    (op = "split" /\ si' # si) => (gi = Len(groups) /\ gi' = gi)

\* C12: group placement step of split_pois_into_days.  All units are placed
\* before any standalone POI, in first-encounter order of their groups in
\* all_pois; each unit goes whole to the day of minimal count, lowest index
\* among ties, and that day's count grows by the unit's size.
C12_GroupPlacement ==
    /\ []UnitsInFirstEncounterOrder
    /\ [][GroupPlacementStep /\ StandaloneAfterGroups]_vars

C12_Witness ==
    /\ op = "split"
    /\ pc = "running"
    /\ num_days = 2
    /\ gi = 2
    /\ si = 0
    /\ Len(groups[1].pois) = 1
    /\ days = <<groups[1].pois, groups[2].pois>>
    /\ day_counts = <<1, 2>>

\* The standalone POIs are listed in input order
StandaloneInInputOrder ==
    op = "split" =>
        \A p, q \in 1..Len(standalone) :
            p < q => InputIndex(standalone[p]) < InputIndex(standalone[q])

\* One step of the standalone loop: every unit is placed, and the next
\* standalone POI is appended to the least-loaded day, whose count grows by one
StandalonePlacementStep ==
    (op = "split" /\ si' # si) =>
        LET b == LeastLoaded(days)
        IN  /\ gi = Len(groups)
            /\ si' = si + 1
            /\ days' = [days EXCEPT ![b] = Append(days[b], standalone[si + 1])]
            /\ day_counts' = [day_counts EXCEPT ![b] = day_counts[b] + 1]

\* 3 days, one group of 3 POIs and 4 standalone POIs
ScenarioB ==
    /\ op = "split"
    /\ num_days = 3
    /\ Len(groups) = 1
    /\ Len(groups[1].pois) = 3
    /\ Len(standalone) = 4

\* Scenario B ends with the group on the first day and the standalone POIs on
\* the second, third, second and third day: counts 3, 2, 2
ScenarioBResult ==
    (ScenarioB /\ pc = "returned") =>
        /\ result = << groups[1].pois,
                       <<standalone[1], standalone[3]>>,
                       <<standalone[2], standalone[4]>> >>
        /\ day_counts = <<3, 2, 2>>

\* C13: standalone placement step of split_pois_into_days.  After the
\* groups, each standalone POI in input order goes to the day of minimal
\* count, lowest index among ties; Scenario B places the standalone POIs on
\* days 1, 2, 1, 2 (counted from 0) with final counts [3, 2, 2].
C13_StandalonePlacement ==
    /\ []StandaloneInInputOrder
    /\ []ScenarioBResult
    /\ [][StandalonePlacementStep]_vars

\* Scenario B returned, from an input that starts with a standalone POI
C13_Witness ==
    /\ ScenarioB
    /\ pc = "returned"
    /\ all_pois[1] = standalone[1]
    /\ Len(result[2]) = 2
    /\ Len(result[3]) = 2

CityUnconfigured == city \notin DOMAIN COMPOUND_CONFIG.cities

\* The input positions (from 0) that round-robin puts on day d (from 1)
RoundRobinSlots(d) ==
    {k \in 0..(Len(all_pois) - 1) : k % num_days = d - 1}

\* C14: fallback of split_pois_into_days for an unconfigured city.  When the
\* city has no entry in the configuration (or the configuration is empty),
\* no POI is grouped, and for num_days >= 1 the k-th input POI (from 0) ends
\* on day k mod num_days, in input order within the day.
C14_UnconfiguredFallback ==
    (op = "split" /\ CityUnconfigured) =>
        /\ groups = <<>>
        /\ standalone = all_pois
        /\ num_days >= 1 => pc # "raised"
        /\ (pc = "returned" /\ num_days >= 1 /\ all_pois # <<>>) =>
              /\ Len(result) = num_days
              /\ \A d \in 1..Len(result) :
                    Len(result[d]) = Cardinality(RoundRobinSlots(d))
              /\ \A k \in 0..(Len(all_pois) - 1) :
                    LET d == (k % num_days) + 1
                        p == (k \div num_days) + 1
                    IN  /\ d <= Len(result)
                        /\ p <= Len(result[d])
                        /\ result[d][p] = all_pois[k + 1]

\* An unconfigured city next to a configured one whose group would take some
\* of the POIs: three days, seven POIs, round-robin wraps twice
C14_Witness ==
    /\ op = "split"
    /\ pc = "returned"
    /\ city = Unknown
    /\ group_pois_by_compound(all_pois, Granada).grouped # <<>>
    /\ num_days = 3
    /\ Len(result[1]) = 3

CityAbsent ==
    /\ city \notin DOMAIN COMPOUND_CONFIG.cities
    /\ city \notin DOMAIN COMPOUND_CONFIG.neighborhoods

\* C15: no-op degradation for an unconfigured city.  When the city is absent
\* from the configuration, get_compound_groups returns the empty list,
\* find_compound_group returns None, ensure_compound_integrity returns the
\* selection unchanged, suggest_poi_order_by_neighborhood returns the POIs
\* in their original order, and no call ends in an error.
C15_NoOpDegradation ==
    CityAbsent =>
        /\ get_compound_groups(city) = <<>>
        /\ get_neighborhood_tags(city) = <<>>
        /\ pc # "raised"
        /\ (op = "groups" /\ pc = "returned") => result = <<>>
        /\ FindReturned => result = None
        /\ EnsureReturned => (result = selected_in /\ selected_pois = selected_in)
        /\ OrderReturned => result = pois

\* An absent city next to a configured one whose neighborhoods would reorder
\* the same POIs
C15_Witness ==
    /\ OrderReturned
    /\ CityAbsent
    /\ city = Unknown
    /\ suggest_poi_order_by_neighborhood(pois, Granada) # pois

\* A candidate that exists and parses
Loadable(i) == files[i].exists /\ files[i].parses

\* The first loadable candidate in priority order, NoPath when there is none
FirstLoadable ==
    IF \E i \in 1..NumPaths : Loadable(i)
    THEN CHOOSE i \in 1..NumPaths :
            Loadable(i) /\ \A j \in 1..(i - 1) : ~Loadable(j)
    ELSE NoPath

Examined == SelectSeq(accessed, LAMBDA a : a.call = "exists")

Opened == {accessed[n].path : n \in {m \in 1..Len(accessed) : accessed[m].call = "open"}}

\* exists() is asked of the candidates 1, 2, ... in that order, and a file is
\* opened only right after exists() said yes for it
ExaminedInOrder ==
    /\ \A n \in 1..Len(Examined) : Examined[n].path = n
    /\ \A n \in 1..Len(accessed) :
          accessed[n].call = "open" =>
              /\ n > 1
              /\ accessed[n - 1] = Call("exists", accessed[n].path)
              /\ files[accessed[n].path].exists

\* When the import is over and some candidate is loadable: the first one is
\* loaded and recorded, every candidate before it was tried, none after it
FirstLoadableWins ==
    (pc = "idle" /\ FirstLoadable # NoPath) =>
        /\ COMPOUND_CONFIG = files[FirstLoadable].content
        /\ COMPOUND_CONFIG_PATH = FirstLoadable
        /\ Len(Examined) = FirstLoadable
        /\ Opened = {i \in 1..FirstLoadable : files[i].exists}

\* Once a candidate is loaded nothing more is examined, read or recorded
LoadedIsFinal ==
    COMPOUND_CONFIG_PATH # NoPath =>
        /\ accessed' = accessed
        /\ COMPOUND_CONFIG' = COMPOUND_CONFIG
        /\ COMPOUND_CONFIG_PATH' = COMPOUND_CONFIG_PATH

\* C16: configuration load order.  Candidates are examined in the fixed
\* priority order; the loaded configuration is the content of the first
\* candidate that exists and parses; absent or unparsable candidates are
\* skipped; after a load no later candidate is read and COMPOUND_CONFIG_PATH
\* names the loaded candidate.
C16_LoadOrder ==
    /\ []ExaminedInOrder
    /\ []FirstLoadableWins
    /\ [][LoadedIsFinal]_vars

\* The third candidate wins over an unparsable first, an absent second and a
\* loadable fourth with other content
C16_Witness ==
    /\ pc = "idle"
    /\ files[1] = BadFile
    /\ files[2] = NoFile
    /\ files[3] = GoodFile(ConfigOf(NameA))
    /\ files[4] = GoodFile(ConfigOf(NameC))
    /\ COMPOUND_CONFIG_PATH = 3

NoneLoadable == FirstLoadable = NoPath

QuietFailure ==
    /\ pc = "idle"
    /\ IsEmptyDict(COMPOUND_CONFIG)
    /\ COMPOUND_CONFIG_PATH = NoPath
    /\ printed # <<>>
    /\ printed[Len(printed)] = Message("warning", 0)

\* C17: total load failure is not fatal.  When no candidate exists or every
\* existing one fails to parse, the import ends without raising, with the
\* empty configuration, no recorded path and the warning printed.
C17_TotalFailure ==
    /\ NoneLoadable ~> QuietFailure
    /\ [](NoneLoadable =>
            /\ pc # "raised"
            /\ IsEmptyDict(COMPOUND_CONFIG)
            /\ COMPOUND_CONFIG_PATH = NoPath)

\* The import is over with two unparsable candidates and two absent ones
C17_Witness ==
    /\ QuietFailure
    /\ files = <<NoFile, BadFile, NoFile, BadFile>>
    /\ printed = <<Message("error", 2), Message("error", 4), Message("warning", 0)>>

C19_QuotaAdvisory ==
    (op = "split" /\ Len(previous) = 1 /\ num_days >= 1) =>
        /\ pc # "raised"
        /\ pc = "returned" => result = previous[1]

\* Two calls with different quotas returned, with a day over the quota of
\* the second call
C19_Witness ==
    /\ op = "split"
    /\ pc = "returned"
    /\ Len(previous) = 1
    /\ num_days = 2
    /\ \E d \in 1..Len(result) : Len(result[d]) > quota_per_day

\* What the call of the first session returns when it runs alone
SoloResult ==
    CASE op = "groups" -> get_compound_groups(city)
      [] op = "find"   -> find_compound_group(poi_name, city)
      [] op = "ensure" -> ensure_compound_integrity(selected_in, available_in, city)
      [] op = "order"  -> suggest_poi_order_by_neighborhood(pois, city)
      [] op = "split"  -> split_pois_into_days(all_pois, city, num_days)

ConfigUnchanged == COMPOUND_CONFIG' = COMPOUND_CONFIG

SessionsAsAlone ==
    /\ pc \in {"returned", "raised"} => result = SoloResult
    /\ session2.pc \in {"returned", "raised"} =>
          session2.result =
              split_pois_into_days(session2.all_pois, city, session2.num_days)

\* C20: the configuration is read-only under concurrent sessions.  After the
\* import no call of get_compound_groups, find_compound_group,
\* ensure_compound_integrity, split_pois_into_days or
\* suggest_poi_order_by_neighborhood changes COMPOUND_CONFIG, and with the
\* steps of two sessions on disjoint POI collections interleaved each call
\* returns what it returns when run alone.
C20_ReadOnlyConfig ==
    /\ [][ConfigUnchanged]_vars
    /\ []SessionsAsAlone

\* Both sessions returned from splits that were under way at the same time
C20_Witness ==
    /\ op = "split"
    /\ pc = "returned"
    /\ session2.pc = "returned"
    /\ groups # <<>>
    /\ Len(all_pois) = 3
    /\ Len(session2.all_pois) = 2
    /\ num_days = 2
    /\ session2.num_days = 2

\* The number of placement units: the groups and the standalone POIs
UnitCount == Len(groups) + Len(standalone)

NonEmptyDays == {d \in 1..Len(result) : result[d] # <<>>}

\* C21: shape of the split result.  For num_days >= 1 split_pois_into_days
\* returns exactly num_days day lists; with fewer units than days the other
\* days are there as empty lists; with one day that day holds every input POI.
C21_ResultShape ==
    (op = "split" /\ num_days >= 1) =>
        /\ pc # "raised"
        /\ pc = "returned" =>
              /\ Len(result) = num_days
              /\ UnitCount < num_days => Cardinality(NonEmptyDays) = UnitCount
              /\ num_days = 1 => SeqToBag(result[1]) = SeqToBag(all_pois)

\* Three days and seven POIs of one group: one day with all, two empty days
C21_Witness ==
    /\ SplitReturned
    /\ num_days = 3
    /\ UnitCount = 1
    /\ Len(result) = 3
    /\ Len(result[1]) = 7
    /\ result[2] = <<>>
    /\ result[3] = <<>>

GroupingReturned == op = "group" /\ pc = "returned"

\* The configuration of the group of this name says must_visit_together: true
DeclaredMust(group_name) ==
    \E i \in 1..Len(COMPOUND_CONFIG.cities[city]) :
        LET e == COMPOUND_CONFIG.cities[city][i]
        IN  e.name = group_name /\ e.has_must /\ e.must_visit_together

\* The name of the must-group group the matcher gives the POI, "None" if none
BindingGroup(poi) ==
    LET g == find_compound_group(poi.name, city)
    IN  IF g # None /\ DeclaredMust(g.name) THEN g.name ELSE "None"

\* C22: non-must groups do not bind.  A POI whose matched group is not
\* must-group (must_visit_together false or left out), or that matches no
\* group, is standalone; the standalone list keeps the input order; only
\* POIs whose matched group is must-group are grouped, under its name.
C22_NonMustStandalone ==
    GroupingReturned =>
        /\ result.standalone =
              SelectSeq(pois, LAMBDA poi : BindingGroup(poi) = "None")
        /\ \A i \in 1..Len(result.grouped) :
              /\ result.grouped[i].name # "None"
              /\ result.grouped[i].pois # <<>>
              /\ result.grouped[i].pois =
                    SelectSeq(pois,
                              LAMBDA poi : BindingGroup(poi) = result.grouped[i].name)
        /\ \A k \in 1..Len(pois) :
              BindingGroup(pois[k]) # "None" =>
                  \E i \in 1..Len(result.grouped) :
                      result.grouped[i].name = BindingGroup(pois[k])

\* Two POIs matched to a group without must_visit_together stay standalone,
\* in input order, around a POI of a must-group group
C22_Witness ==
    /\ GroupingReturned
    /\ city \in DOMAIN COMPOUND_CONFIG.cities
    /\ Len(COMPOUND_CONFIG.cities[city]) = 2
    /\ ~COMPOUND_CONFIG.cities[city][1].has_must
    /\ find_compound_group(NameC, city) # None
    /\ find_compound_group(NameC, city).name = GroupNames[1]
    /\ Len(pois) = 3
    /\ pois[1].name = NameC
    /\ pois[3].name = NameC
    /\ result.standalone = <<pois[1], pois[3]>>
    /\ Len(result.grouped) = 1
    /\ result.grouped[1].pois = <<pois[2]>>

\* The list as it stands when the loop reaches group k (after the last group
\* for k = number of groups + 1)
ListBefore(k) ==
    EnsureLoop(selected_in, SubSeq(get_compound_groups(city), 1, k - 1), available_in)

\* Group k is completed: it is must-group and a POI of the list has the exact
\* name of one of its attractions
Triggered(k) ==
    LET group == get_compound_groups(city)[k]
    IN  group.must_group /\ GroupInSelection(ListBefore(k), group)

Names(ps) == {ps[i].name : i \in 1..Len(ps)}

\* C23: missing members are skipped silently.  When a must-group group is
\* triggered and `available` has no POI of the exact name of some member,
\* ensure_compound_integrity ends without error, adds nothing for that
\* member, and still adds every other missing member that is available.
C23_MissingSkipped ==
    (op = "ensure" /\ pc # "idle") =>
        /\ pc = "returned"
        /\ \A k \in 1..Len(get_compound_groups(city)) :
              Triggered(k) =>
                  LET before == ListBefore(k)
                      after == ListBefore(k + 1)
                      members == get_compound_groups(city)[k].attractions
                  IN  /\ \A j \in 1..Len(members) :
                            IF HasName(available_in, members[j])
                            THEN HasName(after, members[j])
                            ELSE HasName(after, members[j]) <=> HasName(before, members[j])
                      /\ Len(after) - Len(before) =
                            Cardinality((Names(available_in) \cap
                                         {members[j] : j \in 1..Len(members)})
                                        \ Names(before))

\* The first member is neither selected nor available, the second is added,
\* the third was selected
C23_Witness ==
    /\ EnsureReturned
    /\ Len(get_compound_groups(city)) = 1
    /\ get_compound_groups(city)[1].must_group
    /\ get_compound_groups(city)[1].attractions = <<NameA, NameAb, NameC>>
    /\ Len(selected_in) = 1
    /\ selected_in[1].name = NameC
    /\ ~HasName(available_in, NameA)
    /\ Len(result) = 2
    /\ result[2].name = NameAb

\* Some group of the city lists exactly this name
ExactSomewhere(name) ==
    \E i \in 1..Len(get_compound_groups(city)) :
        InList(name, get_compound_groups(city)[i].attractions)

\* lower(m) contains lower(name) or lower(name) contains lower(m), for a
\* member m of the group
ContainingPair(name, group) ==
    \E j \in 1..Len(group.attractions) :
        \/ Contains(Lower(group.attractions[j]), Lower(name))
        \/ Contains(Lower(name), Lower(group.attractions[j]))

ContainingGroups(name) ==
    {i \in 1..Len(get_compound_groups(city)) :
        ContainingPair(name, get_compound_groups(city)[i])}

\* C24: find_compound_group when no group has an exact match.  The result
\* is the first group in declared order with a member m such that lower(m)
\* contains lower(poi_name) or the reverse; the result is None exactly
\* when no group has an exact member and no group has such a pair.
C24_SubstringFallback ==
    FindReturned =>
        /\ (~ExactSomewhere(poi_name) /\ ContainingGroups(poi_name) # {}) =>
              result = get_compound_groups(city)[
                          CHOOSE i \in ContainingGroups(poi_name) :
                              \A j \in ContainingGroups(poi_name) : i <= j]
        /\ result = None <=>
              (~ExactSomewhere(poi_name) /\ ContainingGroups(poi_name) = {})

\* "a" has no exact match; the first group has no containing pair, the
\* second has "Ab", whose lower-case form contains it
C24_Witness ==
    /\ FindReturned
    /\ poi_name = NameA
    /\ ~ExactSomewhere(NameA)
    /\ Len(get_compound_groups(city)) = 2
    /\ ~ContainingPair(NameA, get_compound_groups(city)[1])
    /\ get_compound_groups(city)[1].attractions # <<>>
    /\ result = get_compound_groups(city)[2]

Longest(ds) == CHOOSE n \in {Len(ds[d]) : d \in 1..Len(ds)} :
                  \A d \in 1..Len(ds) : Len(ds[d]) <= n

Shortest(ds) == CHOOSE n \in {Len(ds[d]) : d \in 1..Len(ds)} :
                   \A d \in 1..Len(ds) : Len(ds[d]) >= n

\* The size of the largest group unit placed so far, 0 when none is placed
LargestPlaced ==
    LET sizes == {Len(groups[i].pois) : i \in 1..gi} \cup {0}
    IN  CHOOSE n \in sizes : \A m \in sizes : m <= n

\* C25: balance bound of split_pois_into_days.  For num_days >= 1, after
\* every placement step and in the result, the longest day exceeds the
\* shortest by at most max(1, size of the largest group unit placed so
\* far); without group units the day lengths differ by at most 1.
C25_BalanceBound ==
    (op = "split" /\ num_days >= 1 /\ pc \in {"running", "returned"}) =>
        /\ Longest(days) - Shortest(days) <=
              (IF LargestPlaced > 1 THEN LargestPlaced ELSE 1)
        /\ groups = <<>> => Longest(days) - Shortest(days) <= 1
        /\ pc = "returned" => result = days

\* Two days, a unit of five POIs and two standalone POIs: lengths 5 and 2
C25_Witness ==
    /\ SplitReturned
    /\ num_days = 2
    /\ Len(groups) = 1
    /\ Len(groups[1].pois) = 5
    /\ Len(result[1]) = 5
    /\ Len(result[2]) = 2

\* The name of the must-group group find_compound_group gives the POI,
\* "None" when it gives none or one that is not must-group
UnitOf(poi) ==
    LET g == find_compound_group(poi.name, city)
    IN  IF g # None /\ g.must_group THEN g.name ELSE "None"

\* The input POIs of the unit of this name, in input order
UnitPois(unit_name) == SelectSeq(all_pois, LAMBDA poi : UnitOf(poi) = unit_name)

\* The unit lies in day d from position s on, and nowhere else in the result
UnitAt(unit_name, d, s) ==
    /\ s + Len(UnitPois(unit_name)) - 1 <= Len(result[d])
    /\ SubSeq(result[d], s, s + Len(UnitPois(unit_name)) - 1) = UnitPois(unit_name)
    /\ \A e \in 1..Len(result) : \A p \in 1..Len(result[e]) :
          UnitOf(result[e][p]) = unit_name =>
              (e = d /\ p >= s /\ p < s + Len(UnitPois(unit_name)))

\* C26: matcher-defined units stay intact.  The input POIs that
\* find_compound_group maps to one must-group group lie in exactly one day
\* list, next to each other and in input order; in every day list the
\* units come first and the standalone POIs after them.
C26_UnitsIntact ==
    (SplitReturned /\ num_days >= 1) =>
        /\ \A k \in 1..Len(all_pois) :
              UnitOf(all_pois[k]) # "None" =>
                  \E d \in 1..Len(result) : \E s \in 1..Len(result[d]) :
                      UnitAt(UnitOf(all_pois[k]), d, s)
        /\ \A d \in 1..Len(result) : \A p, q \in 1..Len(result[d]) :
              (p < q /\ UnitOf(result[d][p]) = "None") =>
                  UnitOf(result[d][q]) = "None"
        /\ \A d \in 1..Len(result) : \A p, q \in 1..Len(result[d]) :
              (p < q /\ UnitOf(result[d][p]) # "None"
                     /\ UnitOf(result[d][p]) = UnitOf(result[d][q])) =>
                  \A r \in p..q : UnitOf(result[d][r]) = UnitOf(result[d][p])

\* One day: the unit of the first and third input POI, then the unit of
\* the second
C26_Witness ==
    /\ SplitReturned
    /\ num_days = 1
    /\ Len(groups) = 2
    /\ Len(all_pois) = 3
    /\ result[1] = <<all_pois[1], all_pois[3], all_pois[2]>>

\* C27: idempotence of suggest_poi_order_by_neighborhood.  Applied to its
\* own output, the operation returns that output unchanged.
C27_OrderIdempotent ==
    OrderReturned => suggest_poi_order_by_neighborhood(result, city) = result

\* An output that differs from the input and has two POIs of one
\* neighborhood after each other
C27_Witness ==
    /\ OrderReturned
    /\ Len(pois) = 3
    /\ result = <<pois[2], pois[3], pois[1]>>
    /\ FirstHood(pois[2].name, get_neighborhood_tags(city)) # 0
    /\ FirstHood(pois[2].name, get_neighborhood_tags(city)) =
          FirstHood(pois[3].name, get_neighborhood_tags(city))

\* The indices of the city's groups with at least one attraction
NonEmptyGroups ==
    {i \in 1..Len(get_compound_groups(city)) :
        get_compound_groups(city)[i].attractions # <<>>}

\* What the matcher is to return for the empty name
GroupOfEmptyName ==
    IF NonEmptyGroups = {}
    THEN None
    ELSE get_compound_groups(city)[
            CHOOSE i \in NonEmptyGroups : \A j \in NonEmptyGroups : i <= j]

\* C28: empty names match by containment.  For a POI with an empty or
\* missing name find_compound_group returns the first declared group with
\* a non-empty member list, so group_pois_by_compound puts the POI into
\* that group's unit when the group is must-group and into standalone
\* otherwise.
C28_EmptyNameMatches ==
    GroupingReturned =>
        /\ find_compound_group(EmptyName, city) = GroupOfEmptyName
        /\ \A k \in 1..Len(pois) :
              pois[k].name = EmptyName =>
                  IF GroupOfEmptyName # None /\ GroupOfEmptyName.must_group
                  THEN \E i \in 1..Len(result.grouped) :
                          /\ result.grouped[i].name = GroupOfEmptyName.name
                          /\ \E p \in 1..Len(result.grouped[i].pois) :
                                result.grouped[i].pois[p] = pois[k]
                  ELSE \E p \in 1..Len(result.standalone) :
                          result.standalone[p] = pois[k]

\* A POI without a name passes the first group, which has no attractions,
\* and joins the unit of the second
C28_Witness ==
    /\ GroupingReturned
    /\ Len(get_compound_groups(city)) = 2
    /\ get_compound_groups(city)[1].attractions = <<>>
    /\ get_compound_groups(city)[1].must_group
    /\ get_compound_groups(city)[2].must_group
    /\ Len(pois) = 2
    /\ pois[1].name = EmptyName
    /\ pois[2].name = NameC
    /\ Len(result.grouped) = 1
    /\ result.grouped[1].name = GroupNames[2]
    /\ pois[1] = result.grouped[1].pois[1]

\* C29: ensure_compound_integrity introduces no duplicate names.  Every
\* appended POI is the first POI of its name in `available`, its name is a
\* member of a must-group group, and no POI before it in the list has that
\* name: the appended names are pairwise distinct and distinct from the
\* names selected at the start.
C29_NoDuplicateNames ==
    EnsureReturned =>
        /\ Len(result) >= Len(selected_in)
        /\ SubSeq(result, 1, Len(selected_in)) = selected_in
        /\ \A i \in (Len(selected_in) + 1)..Len(result) :
              /\ \E j \in 1..Len(available_in) :
                    /\ available_in[j] = result[i]
                    /\ \A k \in 1..(j - 1) : available_in[k].name # result[i].name
              /\ \E g \in 1..Len(get_compound_groups(city)) :
                    /\ get_compound_groups(city)[g].must_group
                    /\ InList(result[i].name, get_compound_groups(city)[g].attractions)
              /\ \A k \in 1..(i - 1) : result[k].name # result[i].name

\* Two groups share a member, one lists it twice, and `available` has two
\* POIs of that name: the first of them is added once
C29_Witness ==
    /\ EnsureReturned
    /\ Len(get_compound_groups(city)) = 2
    /\ get_compound_groups(city)[1].must_group
    /\ get_compound_groups(city)[2].must_group
    /\ get_compound_groups(city)[1].attractions = <<NameA, NameC>>
    /\ get_compound_groups(city)[2].attractions = <<NameC, NameC>>
    /\ Len(selected_in) = 1
    /\ Len(available_in) = 2
    /\ available_in[1].name = NameC
    /\ available_in[2].name = NameC
    /\ result = <<selected_in[1], available_in[1]>>

\* Some POI of the list has exactly the name of a member of the group
ExactMemberIn(ps, group) ==
    \E i \in 1..Len(ps) : \E j \in 1..Len(group.attractions) :
        ps[i].name = group.attractions[j]

\* C30: ensure_compound_integrity is triggered by exact names only.  A
\* group adds POIs only if it is must-group and the list, as it stands
\* when the group is visited, has a POI whose name equals one of its
\* members; a selected POI that the matcher gives to the group by
\* substring only triggers nothing, and the list is returned unchanged
\* when no selected name is an exact member of a must-group group.
C30_ExactTrigger ==
    EnsureReturned =>
        /\ \A k \in 1..Len(get_compound_groups(city)) :
              ListBefore(k + 1) # ListBefore(k) =>
                  /\ get_compound_groups(city)[k].must_group
                  /\ ExactMemberIn(ListBefore(k), get_compound_groups(city)[k])
        /\ (\A k \in 1..Len(get_compound_groups(city)) :
               get_compound_groups(city)[k].must_group =>
                   ~ExactMemberIn(selected_in, get_compound_groups(city)[k]))
           => result = selected_in

\* "Ab" is selected; the matcher gives it to the must-group group of "a" and
\* "c" by substring, both are available, nothing is added
C30_Witness ==
    /\ EnsureReturned
    /\ Len(get_compound_groups(city)) = 1
    /\ get_compound_groups(city)[1].must_group
    /\ get_compound_groups(city)[1].attractions = <<NameA, NameC>>
    /\ Len(selected_in) = 1
    /\ selected_in[1].name = NameAb
    /\ find_compound_group(NameAb, city) = get_compound_groups(city)[1]
    /\ HasName(available_in, NameA)
    /\ HasName(available_in, NameC)
    /\ result = selected_in

====
